---- MODULE Spec2Model ----
(***************************************************************************)
(* Model of src/build_prompts.py: the script walks assets/, reads every    *)
(* *.csv file with pandas, stores {label: value} under a key derived from  *)
(* the file name, and dumps the aggregate to assets/prompts.json.          *)
(*                                                                         *)
(* Text that the code takes apart (file names, directory names, paths) is  *)
(* a sequence of one-character strings, so that endswith, split and + are  *)
(* computed as Python computes them.  CSV cells are strings; the objects   *)
(* pandas makes of them are records [t |-> type, s |-> repr].              *)
(***************************************************************************)
EXTENDS Integers, Sequences, FiniteSets, TLC

VARIABLES
    tree,         \* the files under assets/ (without the output file), in the order os.walk lists them
    out,          \* assets/prompts.json on disk: [present, doc]
    walk,         \* this run's listing: the <<root, file>> pairs of os.walk, flattened
    i,            \* position of the loop in walk
    prompt_dict,  \* the aggregate
    pc,           \* "walk" | "done" | "failed"
    opened,       \* the paths this run has handed to read_csv
    written,      \* the paths this run has opened for writing, in order
    run           \* the number of this run of the script on the tree

vars == <<tree, out, walk, i, prompt_dict, pc, opened, written, run>>

----------------------------------------------------------------------------
(* Bounds of the model *)

\* at most this many files under assets/ (the output file not counted)
MaxFiles == 2
\* at most this many data rows in the CSV file of SpecTable
MaxRows == 2
\* the script is run at most this many times on the tree
MaxRuns == 2

----------------------------------------------------------------------------
(* Python's str operations *)

Last(s) == s[Len(s)]

\* s.endswith(suf)
EndsWith(s, suf) ==
    /\ Len(s) >= Len(suf)
    /\ SubSeq(s, Len(s) - Len(suf) + 1, Len(s)) = suf

\* s.split(sep) for a one-character sep: the pieces between the separators
RECURSIVE Split(_, _)
Split(s, sep) ==
    IF \A k \in 1..Len(s) : s[k] # sep
    THEN <<s>>
    ELSE LET k == CHOOSE j \in 1..Len(s) :
                      s[j] = sep /\ \A m \in 1..(j - 1) : s[m] # sep
         IN  <<SubSeq(s, 1, k - 1)>> \o Split(SubSeq(s, k + 1, Len(s)), sep)

\* os.path.join(root, name), which is how os.walk names what it finds
PathJoin(root, name) ==
    IF Last(root) = "/" THEN root \o name ELSE root \o <<"/">> \o name

----------------------------------------------------------------------------
(* Names *)

AssetsDir == <<"a", "s", "s", "e", "t", "s", "/">>
CsvSuffix == <<".", "c", "s", "v">>
OutName   == <<"p", "r", "o", "m", "p", "t", "s", ".", "j", "s", "o", "n">>
OutPath   == AssetsDir \o OutName

\* the roots os.walk('assets/') reports: the top, and two subdirectories
Roots == {AssetsDir, PathJoin(AssetsDir, <<"a">>), PathJoin(AssetsDir, <<"b">>)}

CsvNames == { <<"x", ".", "c", "s", "v">>,
              <<"a", "x", ".", "c", "s", "v">>,
              <<"x", ".", "b", ".", "c", "s", "v">> }
OtherNames == { <<"n", ".", "t", "x", "t">> }

----------------------------------------------------------------------------
(* CSV files and what pandas makes of them *)

\* The text of a CSV file: parsable or not, a header of two column names, and
\* rows of two cells.  An unparsable file stands for everything read_csv
\* rejects (empty file, ragged rows, undecodable bytes).
LabelCells == {"hello", "bye", "1", "01"}
ValueCells == {"Hello!", "Goodbye!", "2", ""}
GoodHeaders == { <<"label", "value">>, <<"value", "label">> }
BadHeaders  == { <<"name", "value">>, <<"label", "text">> }
Unparsable == [ok |-> FALSE, header |-> <<>>, rows |-> <<>>]

\* cell j of a row is the cell under column j of the header
RowsOf(header, l, v) == IF header[1] = "value" THEN <<v, l>> ELSE <<l, v>>

CsvFiles(headers, labels, values, lens) ==
    { [ok |-> TRUE, header |-> h,
       rows |-> [k \in 1..Len(r) |-> RowsOf(h, r[k][1], r[k][2])]] :
          h \in headers, r \in UNION { [1..n -> labels \X values] : n \in lens } }
    \cup {Unparsable}

\* Python objects: a str, an int, a float, or the float nan
PyStr(c)   == [t |-> "str", s |-> c, n |-> 0]
PyInt(k)   == [t |-> "int", s |-> "", n |-> k]
PyFloat(k) == [t |-> "float", s |-> "", n |-> k]
PyNaN      == [t |-> "nan", s |-> "", n |-> 0]

\* the cells read_csv takes for missing values (of its default na_values)
NaStrings == {"", "NA", "NaN", "null"}
\* the cells that parse as integers, with their values
IntCells == {"1", "01", "2"}
IntOf(c) == CASE c = "1" -> 1 [] c = "01" -> 1 [] c = "2" -> 2
\* repr() of the integers above
IntRepr(k) == CASE k = 1 -> "1" [] k = 2 -> "2"

\* read_csv infers each column's dtype from all of its cells
ColumnDtype(cells) ==
    IF cells = <<>> THEN "object"
    ELSE IF \A k \in 1..Len(cells) : cells[k] \in IntCells THEN "int64"
    ELSE IF \A k \in 1..Len(cells) : cells[k] \in IntCells \cup NaStrings THEN "float64"
    ELSE "object"

ParseCell(dtype, c) ==
    CASE dtype = "int64"   -> PyInt(IntOf(c))
      [] dtype = "float64" -> IF c \in NaStrings THEN PyNaN ELSE PyFloat(IntOf(c))
      [] OTHER             -> IF c \in NaStrings THEN PyNaN ELSE PyStr(c)

ColumnCells(content, j) == [k \in 1..Len(content.rows) |-> content.rows[k][j]]

\* pd.read_csv(path) of a parsable file: the columns by position
ReadCsv(content) ==
    [columns |-> content.header,
     data |-> [j \in 1..Len(content.header) |->
                  LET cells == ColumnCells(content, j)
                  IN  [k \in 1..Len(cells) |-> ParseCell(ColumnDtype(cells), cells[k])]]]

HasColumn(df, name) == \E j \in 1..Len(df.columns) : df.columns[j] = name
Column(df, name) == df.data[CHOOSE j \in 1..Len(df.columns) : df.columns[j] = name]

\* a dict: d[k] = v
EmptyDict == [k \in {} |-> k]
Put(d, k, v) == [x \in DOMAIN d \cup {k} |-> IF x = k THEN v ELSE d[x]]

\* dict(zip(index, values)): the rows are inserted in order
RECURSIVE ZipToDict(_, _, _)
ZipToDict(index, values, d) ==
    IF index = <<>> THEN d
    ELSE ZipToDict(Tail(index), Tail(values), Put(d, Head(index), Head(values)))

\* df.set_index('label')['value'].to_dict(); either column missing is a KeyError
ToDictOk(df) == HasColumn(df, "label") /\ HasColumn(df, "value")
ToDict(df) == ZipToDict(Column(df, "label"), Column(df, "value"), EmptyDict)

----------------------------------------------------------------------------
(* json *)

\* json.dump turns a dict key into a JSON string
JsonKey(k) ==
    CASE k.t = "str"   -> k.s
      [] k.t = "int"   -> IntRepr(k.n)
      [] k.t = "float" -> IntRepr(k.n) \o ".0"
      [] OTHER         -> "NaN"

\* ... and a value into a JSON token: a string, a number without or with a
\* fraction, or the NaN literal
JsonValue(v) ==
    CASE v.t = "str"   -> [t |-> "string", s |-> v.s, n |-> 0]
      [] v.t = "int"   -> [t |-> "integer", s |-> "", n |-> v.n]
      [] v.t = "float" -> [t |-> "real", s |-> "", n |-> v.n]
      [] OTHER         -> [t |-> "NaN", s |-> "", n |-> 0]

JsonDumpTable(table) ==
    [key \in {JsonKey(k) : k \in DOMAIN table} |->
        JsonValue(table[CHOOSE k \in DOMAIN table : JsonKey(k) = key])]

\* json.dump(prompt_dict, ...): the document written; the keys of the
\* aggregate are str and stay as they are
JsonDump(agg) == [key \in DOMAIN agg |-> JsonDumpTable(agg[key])]

----------------------------------------------------------------------------
(* The directory tree *)

\* A file under assets/: the root os.walk reports for its directory, its
\* name, and its text.
Entry(root, name, content) == [root |-> root, name |-> name, content |-> content]
RealPath(e) == PathJoin(e.root, e.name)

\* os.walk is top-down: the files of assets/ come first, and the files of one
\* directory come together; within that the order is the file system's.
IsWalkOrder(t) ==
    /\ \A a, b \in 1..Len(t) : a < b /\ t[b].root = AssetsDir => t[a].root = AssetsDir
    /\ \A a, b, c \in 1..Len(t) :
          a < b /\ b < c /\ t[a].root = t[c].root => t[b].root = t[a].root
    /\ \A a, b \in 1..Len(t) : a # b => RealPath(t[a]) # RealPath(t[b])

\* the files of SpecWalk's trees: one-row tables, files lacking a column, and
\* unparsable ones; what is in a file that is no CSV file does not matter
WalkContents ==
    CsvFiles({<<"label", "value">>}, {"hello"}, {"Hello!", "Goodbye!"}, {1})
    \cup CsvFiles(BadHeaders, {"hello"}, {"Hello!"}, {1})
WalkEntries ==
    { Entry(r, f, c) : r \in Roots, f \in CsvNames, c \in WalkContents }
    \cup { Entry(r, f, Unparsable) : r \in Roots, f \in OtherNames }
WalkTrees ==
    { t \in UNION { [1..n -> WalkEntries] : n \in 0..MaxFiles } : IsWalkOrder(t) }

\* the files of SpecTable's trees: one CSV file of up to MaxRows rows
TableContents ==
    CsvFiles(GoodHeaders, LabelCells, ValueCells, 0..MaxRows)
    \cup CsvFiles(BadHeaders, {"hello"}, {"Hello!"}, {1})
TableTrees ==
    { <<Entry(r, <<"x", ".", "c", "s", "v">>, c)>> : r \in Roots, c \in TableContents }

\* the output file as it is on disk
Absent == [present |-> FALSE, doc |-> EmptyDict]
OnDisk(doc) == [present |-> TRUE, doc |-> doc]
\* an output file left by an earlier build
OldOutput ==
    OnDisk(JsonDump(Put(EmptyDict, <<"o", "l", "d">>,
                        Put(EmptyDict, PyStr("hello"), PyStr("Hello!")))))

NumTop(t) == Cardinality({k \in 1..Len(t) : t[k].root = AssetsDir})

\* What os.walk lists in a run: the files of the tree and, when it exists, the
\* output file, somewhere among the files of assets/.
Listings(t, present) ==
    LET files == [k \in 1..Len(t) |-> <<t[k].root, t[k].name>>]
    IN  IF ~present THEN {files}
        ELSE { SubSeq(files, 1, p - 1) \o <<<<AssetsDir, OutName>>>>
                   \o SubSeq(files, p, Len(files)) : p \in 1..(NumTop(t) + 1) }

Exists(path) == \E k \in 1..Len(tree) : RealPath(tree[k]) = path
FileAt(path) == tree[CHOOSE k \in 1..Len(tree) : RealPath(tree[k]) = path].content

----------------------------------------------------------------------------
(* The script *)

\* A variant of line 8 without the filter: every file listed is read.
IsCsvAny(file) == TRUE

\* line 8: file.endswith('.csv')
IsCsv(file) == EndsWith(file, CsvSuffix)

\* line 9: file.split('/')[-1].split('.')[0]
Ptype(file) == Split(Last(Split(file, "/")), ".")[1]

\* line 10: the path handed to read_csv is root + file
OpenPath(root, file) == root \o file

\* read_csv and to_dict both succeed on the file at path
Readable(path) ==
    /\ Exists(path)
    /\ FileAt(path).ok
    /\ ToDictOk(ReadCsv(FileAt(path)))

InitWith(trees) ==
    /\ tree \in trees
    /\ out \in {Absent, OldOutput}
    /\ walk \in Listings(tree, out.present)
    /\ i = 1
    /\ prompt_dict = EmptyDict
    /\ pc = "walk"
    /\ opened = {}
    /\ written = <<>>
    /\ run = 1

Init == InitWith(WalkTrees)
InitTable == InitWith(TableTrees)

\* lines 7-8: a file that does not end in .csv is passed over
SkipFile ==
    /\ pc = "walk"
    /\ i <= Len(walk)
    /\ ~IsCsv(walk[i][2])
    /\ i' = i + 1
    /\ UNCHANGED <<tree, out, walk, prompt_dict, pc, opened, written, run>>

\* A variant of lines 9-13 with line 13 indented into the loop: the aggregate
\* is dumped after every file.
ProcessFileDumping ==
    /\ pc = "walk"
    /\ i <= Len(walk)
    /\ IsCsv(walk[i][2])
    /\ LET path == OpenPath(walk[i][1], walk[i][2])
       IN  /\ Readable(path)
           /\ prompt_dict' = Put(prompt_dict, Ptype(walk[i][2]), ToDict(ReadCsv(FileAt(path))))
           /\ opened' = opened \cup {path}
    /\ out' = OnDisk(JsonDump(prompt_dict'))
    /\ written' = Append(written, OutPath)
    /\ i' = i + 1
    /\ UNCHANGED <<tree, walk, pc, run>>

\* lines 9-11: a CSV file is read and its table stored under its key
ProcessFile ==
    /\ pc = "walk"
    /\ i <= Len(walk)
    /\ IsCsv(walk[i][2])
    /\ LET path == OpenPath(walk[i][1], walk[i][2])
       IN  /\ Readable(path)
           /\ prompt_dict' = Put(prompt_dict, Ptype(walk[i][2]), ToDict(ReadCsv(FileAt(path))))
           /\ opened' = opened \cup {path}
    /\ i' = i + 1
    /\ UNCHANGED <<tree, out, walk, pc, written, run>>

\* A variant of lines 10-11 inside try/except: a file that cannot be read is
\* passed over and the walk goes on.
FailFileSwallowed ==
    /\ pc = "walk"
    /\ i <= Len(walk)
    /\ IsCsv(walk[i][2])
    /\ LET path == OpenPath(walk[i][1], walk[i][2])
       IN  /\ ~Readable(path)
           /\ opened' = opened \cup {path}
    /\ i' = i + 1
    /\ UNCHANGED <<tree, out, walk, prompt_dict, pc, written, run>>

\* lines 10-11: read_csv or the column lookup raises, nothing catches it and
\* the process ends before line 13
FailFile ==
    /\ pc = "walk"
    /\ i <= Len(walk)
    /\ IsCsv(walk[i][2])
    /\ LET path == OpenPath(walk[i][1], walk[i][2])
       IN  /\ ~Readable(path)
           /\ opened' = opened \cup {path}
    /\ pc' = "failed"
    /\ UNCHANGED <<tree, out, walk, i, prompt_dict, written, run>>

\* A variant of line 13 under `if prompt_dict:`: an empty aggregate is not
\* written.
DumpUnlessEmpty ==
    /\ pc = "walk"
    /\ i > Len(walk)
    /\ IF prompt_dict = EmptyDict
       THEN UNCHANGED <<out, written>>
       ELSE /\ out' = OnDisk(JsonDump(prompt_dict))
            /\ written' = Append(written, OutPath)
    /\ pc' = "done"
    /\ UNCHANGED <<tree, walk, i, prompt_dict, opened, run>>

\* line 13: after the loop the aggregate is dumped to assets/prompts.json
Dump ==
    /\ pc = "walk"
    /\ i > Len(walk)
    /\ out' = OnDisk(JsonDump(prompt_dict))
    /\ written' = Append(written, OutPath)
    /\ pc' = "done"
    /\ UNCHANGED <<tree, walk, i, prompt_dict, opened, run>>

\* the build runs the script again on the tree as the last run left it: a new
\* process, which starts at line 5
Rerun ==
    /\ pc \in {"done", "failed"}
    /\ run < MaxRuns
    /\ run' = run + 1
    /\ walk' \in Listings(tree, out.present)
    /\ i' = 1
    /\ prompt_dict' = EmptyDict
    /\ pc' = "walk"
    /\ opened' = {}
    /\ written' = <<>>
    /\ UNCHANGED <<tree, out>>

Next == SkipFile \/ ProcessFile \/ FailFile \/ Dump \/ Rerun

Spec == Init /\ [][Next]_vars
SpecTable == InitTable /\ [][Next]_vars

----------------------------------------------------------------------------
(* What the claims speak of, stated apart from the script's own operators *)

Range(f) == {f[k] : k \in DOMAIN f}

\* the name is <stem>.csv
HasCsvExtension(name) ==
    /\ Len(name) >= 4
    /\ name[Len(name) - 3] = "." /\ name[Len(name) - 2] = "c"
    /\ name[Len(name) - 1] = "s" /\ name[Len(name)] = "v"
Stem(name) == SubSeq(name, 1, Len(name) - 4)

\* a CSV file that parses and has both columns
WellFormed(content) ==
    content.ok /\ "label" \in Range(content.header) /\ "value" \in Range(content.header)

\* the positions of the listing that hold CSV files
CsvAt == {k \in 1..Len(walk) : HasCsvExtension(walk[k][2])}
\* ... and those the loop has behind it: their files have been processed
Processed == {k \in CsvAt : k < i}

\* the file that listing position k names, as it is in the tree
RealPathAt(k) == PathJoin(walk[k][1], walk[k][2])
ContentAt(k) ==
    tree[CHOOSE m \in 1..Len(tree) :
             tree[m].root = walk[k][1] /\ tree[m].name = walk[k][2]].content

\* label -> value of the last row with that label, as the text of the cells
LastRowTable(content) ==
    LET lj == CHOOSE j \in 1..2 : content.header[j] = "label"
        vj == CHOOSE j \in 1..2 : content.header[j] = "value"
        last(l) == CHOOSE r \in 1..Len(content.rows) :
                       /\ content.rows[r][lj] = l
                       /\ \A q \in (r + 1)..Len(content.rows) : content.rows[q][lj] # l
    IN  [l \in {content.rows[r][lj] : r \in 1..Len(content.rows)} |->
            content.rows[last(l)][vj]]

\* a stored table as text: each key and value as json.dump would print it
\* between the quotes
TextTable(table) ==
    [l \in {JsonKey(k) : k \in DOMAIN table} |->
        JsonKey(table[CHOOSE k \in DOMAIN table : JsonKey(k) = l])]

\* some CSV file of the listing cannot be processed
FailsAt(k) ==
    \/ ~Exists(walk[k][1] \o walk[k][2])
    \/ ~WellFormed(FileAt(walk[k][1] \o walk[k][2]))
SomeFileFails == \E k \in CsvAt : FailsAt(k)

----------------------------------------------------------------------------
(* C1 *)

\* C1: for every CSV file the run processes, the table stored under the
\* file's key maps each label of the file to the value of the last row with
\* that label, and has no other labels.  Stated of the file processed last,
\* whose table nothing has overwritten yet, and of the text of the labels and
\* values, whatever their types.
C1_LastRowWins ==
    \A k \in Processed :
        k = i - 1 =>
            /\ Ptype(walk[k][2]) \in DOMAIN prompt_dict
            /\ TextTable(prompt_dict[Ptype(walk[k][2])]) = LastRowTable(ContentAt(k))

----------------------------------------------------------------------------
(* C2, C3, C4 *)

AllWellFormed == \A m \in 1..Len(tree) : HasCsvExtension(tree[m].name) => WellFormed(tree[m].content)

\* C2: subdirectories are traversed fully: with every CSV file of the tree
\* well-formed the run does not fail, every CSV file processed was opened
\* under its real path, and the table stored for it is built from its rows.
C2_SubdirsTraversed ==
    /\ AllWellFormed => pc # "failed"
    /\ \A k \in Processed :
          /\ RealPathAt(k) \in opened
          /\ k = i - 1 =>
                /\ Ptype(walk[k][2]) \in DOMAIN prompt_dict
                /\ prompt_dict[Ptype(walk[k][2])] = ToDict(ReadCsv(ContentAt(k)))

\* C3: the key of <stem>.csv is <stem>, dots in the stem included; so two
\* files of one directory with different stems have different keys.
C3_KeyIsStem ==
    /\ \A k \in Processed : k = i - 1 => Stem(walk[k][2]) \in DOMAIN prompt_dict
    /\ \A k, m \in Processed :
          walk[k][1] = walk[m][1] /\ walk[k][2] # walk[m][2]
              => Ptype(walk[k][2]) # Ptype(walk[m][2])

\* C4: when two CSV files of different directories have the same key, the
\* run completes and the final aggregate holds, under that key, the table of
\* the one of them processed last.
C4_LastFileWins ==
    \A k, m \in CsvAt :
        (/\ k < m
         /\ walk[k][1] # walk[m][1]
         /\ Ptype(walk[k][2]) = Ptype(walk[m][2])
         /\ \A q \in CsvAt : q > m => Ptype(walk[q][2]) # Ptype(walk[m][2])
         /\ AllWellFormed)
        => /\ pc # "failed"
           /\ pc = "done" =>
                 /\ Ptype(walk[m][2]) \in DOMAIN prompt_dict
                 /\ prompt_dict[Ptype(walk[m][2])] = ToDict(ReadCsv(ContentAt(m)))

----------------------------------------------------------------------------
(* C6, C9 *)

\* json.load: the keys of an object are str
JsonLoadValue(j) ==
    CASE j.t = "string"  -> PyStr(j.s)
      [] j.t = "integer" -> PyInt(j.n)
      [] j.t = "real"    -> PyFloat(j.n)
      [] OTHER           -> PyNaN

JsonLoadTable(obj) == [k \in {PyStr(key) : key \in DOMAIN obj} |-> JsonLoadValue(obj[k.s])]
JsonLoad(doc) == [key \in DOMAIN doc |-> JsonLoadTable(doc[key])]

\* Python's == on objects: nan equals nothing, 1 == 1.0, a str equals no number
PyEq(x, y) ==
    /\ x.t # "nan" /\ y.t # "nan"
    /\ \/ x = y
       \/ x.t \in {"int", "float"} /\ y.t \in {"int", "float"} /\ x.n = y.n
\* == on dicts: the same keys with equal values
TableEq(a, b) ==
    /\ \A k \in DOMAIN a : \E k2 \in DOMAIN b : PyEq(k, k2) /\ PyEq(a[k], b[k2])
    /\ \A k2 \in DOMAIN b : \E k \in DOMAIN a : PyEq(k, k2)
DictEq(a, b) == DOMAIN a = DOMAIN b /\ \A k \in DOMAIN a : TableEq(a[k], b[k])

\* C6: parsing the document written gives back the aggregate it was
\* written from.
C6_RoundTrip == pc = "done" => DictEq(JsonLoad(out.doc), prompt_dict)

\* C9: every label and every value in the aggregate is a string.
C9_StringsOnly ==
    \A key \in DOMAIN prompt_dict :
        \A l \in DOMAIN prompt_dict[key] :
            l.t = "str" /\ prompt_dict[key][l].t = "str"

----------------------------------------------------------------------------
(* C5 *)

\* C5: if a CSV file of the listing cannot be processed, the run does not get
\* past it, ends failed, and never opens or writes the output file: the file
\* on disk stays as it was.
C5_FailureWritesNothing ==
    /\ [](\A k \in CsvAt : FailsAt(k) => i <= k /\ pc # "done" /\ written = <<>>)
    /\ [](pc = "failed" => written = <<>> /\ SomeFileFails)
    /\ [][SomeFileFails => out' = out]_vars

\* a run that failed after it had processed a file, with an output file of an
\* earlier build on disk
C5_Witness ==
    /\ pc = "failed"
    /\ prompt_dict # EmptyDict
    /\ out = OldOutput

----------------------------------------------------------------------------
(* C7 *)

NoCsvInTree == \A m \in 1..Len(tree) : ~HasCsvExtension(tree[m].name)

\* C7: with no CSV file in the tree the run cannot fail or stall, and what it
\* writes is the empty JSON object.
C7_EmptyTreeWritesEmptyObject ==
    NoCsvInTree =>
        /\ pc # "failed"
        /\ pc = "walk" => ENABLED Next
        /\ pc = "done" => out = OnDisk(EmptyDict) /\ written = <<OutPath>>

\* a finished run on a tree with a non-CSV file in a subdirectory and none in
\* assets/ itself
C7_Witness ==
    /\ NoCsvInTree
    /\ pc = "done"
    /\ \E m \in 1..Len(tree) : tree[m].root # AssetsDir
    /\ \A m \in 1..Len(tree) : tree[m].root # AssetsDir

----------------------------------------------------------------------------
(* C8 *)

\* the positions of the listing that hold files without the .csv extension
OtherAt == {k \in 1..Len(walk) : ~HasCsvExtension(walk[k][2])}

\* C8: a file without the .csv extension is never handed to read_csv and
\* the step over it leaves the aggregate alone; the keys of the final
\* aggregate are the keys of the CSV files of the listing; and a later run
\* on the same tree, which finds the output file of the last one in the
\* listing, writes what is already there.
C8_OtherFilesIgnored ==
    /\ [](\A k \in OtherAt : RealPathAt(k) \notin opened
                             /\ (walk[k][1] \o walk[k][2]) \notin opened)
    /\ [](\A p \in opened : HasCsvExtension(p))
    /\ [][i <= Len(walk) /\ i \in OtherAt /\ run' = run
              => prompt_dict' = prompt_dict /\ i' = i + 1 /\ pc' = pc]_vars
    /\ [](pc = "done" => DOMAIN prompt_dict = {Ptype(walk[k][2]) : k \in CsvAt})
    /\ [][run > 1 /\ pc = "walk" /\ pc' = "done" => out' = out]_vars

\* the second run has finished, with the output file of the first and another
\* non-CSV file in its listing, and has stored a table
C8_Witness ==
    /\ run = 2
    /\ pc = "done"
    /\ prompt_dict # EmptyDict
    /\ \E k \in OtherAt : walk[k][2] = OutName
    /\ \E k \in OtherAt : walk[k][2] # OutName

----------------------------------------------------------------------------
(* C10 *)

\* C10: the aggregate is empty when the walk starts; nothing is written
\* before the walk is over; a finished run has written the output file once,
\* after the last file of the listing, with the whole aggregate, and nothing
\* else; and after that write the run changes nothing.
C10_WrittenOnceAtTheEnd ==
    /\ [](pc = "walk" /\ i = 1 => prompt_dict = EmptyDict)
    /\ [](written # <<>> => pc = "done")
    /\ [](pc = "done" =>
             /\ written = <<OutPath>>
             /\ i = Len(walk) + 1
             /\ out = OnDisk(JsonDump(prompt_dict))
             /\ \A k \in CsvAt : Ptype(walk[k][2]) \in DOMAIN prompt_dict)
    /\ [][pc = "done" /\ run' = run => UNCHANGED <<prompt_dict, out, written>>]_vars
    /\ [][prompt_dict' # prompt_dict => pc = "walk" \/ run' # run]_vars

\* a finished run that stored two tables
C10_Witness ==
    /\ pc = "done"
    /\ written = <<OutPath>>
    /\ Cardinality(DOMAIN prompt_dict) = 2

====
